---- MODULE Spec2Model ----
(***************************************************************************)
(* State-machine model of the VFD editor: VFDWordProcessor (VFDEditor.py)  *)
(* together with the part of FileOperations (file_ops.py) it calls.        *)
(*                                                                         *)
(* The buffer is a sequence of byte values; Python's 0-based indices are   *)
(* kept and translated by At/SetAt/PySlice.  The 16384-byte buffer and the *)
(* 2x40 display are scaled down: Capacity stands for 16384, RowWidth for   *)
(* 40, WindowSize (two rows) for 80 and WindowSize - 1 for 79.             *)
(*                                                                         *)
(* The display (vfd.py) is written and never read by the editor.  Its cells *)
(* and cursor are followed in the behaviours that start with the display   *)
(* on (InitDisplay); with the display off every call to it is skipped, and *)
(* the behaviours are the same ones without the display's state.           *)
(*                                                                         *)
(* The file store is the editor's environment.  The content of the file    *)
(* last written or read with success is followed in the behaviours that    *)
(* start with it on (InitFiles), in the same way.                          *)
(***************************************************************************)
EXTENDS Integers, Sequences, FiniteSets, TLC

\* ---------------------------------------------------------------- bounds
\* Capacity: the buffer's size (16384); RowWidth: a display row (40);
\* MaxFileLen: the longest file the file store holds;
\* LongCapacity: the buffer's size again, for the behaviours in which the
\* text grows to two windows and the window scrolls by several rows
Capacity == 5
RowWidth == 2
MaxFileLen == 3
LongCapacity == 8

\* the two rows of the display (80)
WindowSize == 2 * RowWidth

\* ------------------------------------------------------- byte values used
NUL == 0
NEWLINE == 10
SPACE == 32
BACKTICK == 96
\* the first character of a status message ("Insert Mode: ON")
MSGCHAR == 73
\* the printable characters typed in the model (KEY_SPACE types one more
\* printable character through the same call and is covered by them)
Printable == {97}

\* ------------------------------------------------------------ file names
None == "None"
JournalName == "jrn"
UserNames == {"doc"}

VARIABLES
    buffer,          \* self.buffer (bytearray)
    buffer_pos,      \* self.buffer_pos
    visible_start,   \* self.visible_start
    visible_end,     \* self.visible_end
    visible_text,    \* self.visible_text
    visible_old,     \* self.visible_old
    cursor_pos,      \* self.cursor_pos
    buffer_altered,  \* self.buffer_altered
    insert_mode,     \* self.insert_mode
    open_filename,   \* self.open_filename
    vfd,             \* self.vfd: the display's cells and its cursor
    last_file,       \* the file store: what was last written or read
    pc               \* where run() is: "editing", "quit" or "crashed"

vars == <<buffer, buffer_pos, visible_start, visible_end, visible_text,
          visible_old, cursor_pos, buffer_altered, insert_mode,
          open_filename, vfd, last_file, pc>>

\* ------------------------------------------------- Python sequence helpers
Min(a, b) == IF a < b THEN a ELSE b
Max(a, b) == IF a > b THEN a ELSE b

Zeros(n) == [i \in 1..n |-> NUL]
Spaces(n) == [i \in 1..n |-> SPACE]

At(b, i) == b[i + 1]
SetAt(b, i, v) == [b EXCEPT ![i + 1] = v]

\* Python's normalisation of a slice bound k for a sequence of length n
SliceBound(n, k) == IF k < 0 THEN Max(0, n + k) ELSE Min(k, n)

\* b[i:j]
PySlice(b, i, j) ==
    LET lo == SliceBound(Len(b), i)
        hi == SliceBound(Len(b), j)
    IN  IF lo < hi THEN SubSeq(b, lo + 1, hi) ELSE <<>>

\* b.find(0): index of the first zero byte, -1 when there is none
FindZero(b) ==
    IF \E i \in 1..Len(b) : b[i] = NUL
    THEN (CHOOSE i \in 1..Len(b) : b[i] = NUL /\ \A j \in 1..(i - 1) : b[j] # NUL) - 1
    ELSE -1

\* sum(byte != 0 for byte in buffer)
NonZero(byte) == byte # NUL
calculate_used_buffer(b) == Len(SelectSeq(b, NonZero))

\* --------------------------------------------------- the display (vfd.py)
\* a status message or prompt, scaled like the display: one cell
StatusText == <<MSGCHAR>>

DisplayOff == [on |-> FALSE, cells |-> <<>>, cursor |-> 0]
\* the display after __init__: the title written, then clear()
DisplayCleared == [on |-> TRUE, cells |-> Spaces(WindowSize), cursor |-> 0]

\* VFD.set_cursor.  A byte outside 0..79 is not a position command: the
\* cursor is taken to stay where it is (no such byte is sent in the
\* behaviours that start with the display on).
vfd_set_cursor(v, pos) ==
    IF v.on /\ pos \in 0..(WindowSize - 1) THEN [v EXCEPT !.cursor = pos] ELSE v

\* VFD.write: each character goes to the cell under the cursor, which moves
\* on by one and from the last cell to the first (clear() relies on that:
\* its 80 spaces clear all 80 cells from wherever the cursor is)
RECURSIVE vfd_write(_, _)
vfd_write(v, text) ==
    IF ~v.on \/ text = <<>>
    THEN v
    ELSE vfd_write([v EXCEPT !.cells = SetAt(v.cells, v.cursor, Head(text)),
                             !.cursor = (v.cursor + 1) % WindowSize],
                   Tail(text))

\* VFD.clear
vfd_clear(v) == vfd_set_cursor(vfd_write(v, Spaces(WindowSize)), 0)

\* a sequence of calls applied in order
RECURSIVE vfd_apply(_, _)
vfd_apply(v, ops) ==
    IF ~v.on \/ ops = <<>>
    THEN v
    ELSE vfd_apply(IF Head(ops).op = "set_cursor"
                   THEN vfd_set_cursor(v, Head(ops).pos)
                   ELSE vfd_write(v, Head(ops).text),
                   Tail(ops))

\* ------------------------------------------------------ the editor object
Self == [buffer |-> buffer, buffer_pos |-> buffer_pos,
         visible_start |-> visible_start, visible_end |-> visible_end,
         visible_text |-> visible_text, visible_old |-> visible_old,
         cursor_pos |-> cursor_pos, buffer_altered |-> buffer_altered,
         insert_mode |-> insert_mode, open_filename |-> open_filename,
         vfd |-> vfd, last_file |-> last_file, raised |-> FALSE]

\* update_cursor_position scrolling one character late: the comparison
\* with 80 in place of 79
update_cursor_position_late(s) ==
    LET buffer_size == calculate_used_buffer(s.buffer)
        pos == IF s.buffer_pos > buffer_size THEN buffer_size ELSE s.buffer_pos
        cur == pos - s.visible_start
    IN  IF cur < 0
        THEN [s EXCEPT !.buffer_pos = pos, !.cursor_pos = 0,
                       !.vfd = vfd_set_cursor(s.vfd, 0)]
        ELSE IF cur > WindowSize
        THEN [s EXCEPT !.buffer_pos = pos,
                       !.visible_start = s.visible_start + RowWidth,
                       !.visible_end = s.visible_end + RowWidth,
                       !.cursor_pos = cur - RowWidth,
                       !.vfd = vfd_set_cursor(s.vfd, cur - RowWidth)]
        ELSE [s EXCEPT !.buffer_pos = pos, !.cursor_pos = cur,
                       !.vfd = vfd_set_cursor(s.vfd, cur)]

update_cursor_position(s) ==
    LET buffer_size == calculate_used_buffer(s.buffer)
        pos == IF s.buffer_pos > buffer_size THEN buffer_size ELSE s.buffer_pos
        cur == pos - s.visible_start
    IN  IF cur < 0
        THEN [s EXCEPT !.buffer_pos = pos, !.cursor_pos = 0,
                       !.vfd = vfd_set_cursor(s.vfd, 0)]
        ELSE IF cur > WindowSize - 1
        THEN [s EXCEPT !.buffer_pos = pos,
                       !.visible_start = s.visible_start + RowWidth,
                       !.visible_end = s.visible_end + RowWidth,
                       !.cursor_pos = cur - RowWidth,
                       !.vfd = vfd_set_cursor(s.vfd, cur - RowWidth)]
        ELSE [s EXCEPT !.buffer_pos = pos, !.cursor_pos = cur,
                       !.vfd = vfd_set_cursor(s.vfd, cur)]

\* the shown character without the mark for a line break
ShownCharNoMark(byte) == IF byte # NUL THEN byte ELSE SPACE

\* the character shown for one buffer byte
ShownChar(byte) ==
    IF byte = NEWLINE THEN BACKTICK ELSE IF byte # NUL THEN byte ELSE SPACE

\* f"{text:<80}": pad with spaces on the right, never truncate
PadLeftAligned(text) ==
    IF Len(text) >= WindowSize THEN text ELSE text \o Spaces(WindowSize - Len(text))

BuildVisibleText(b, vstart, vend) ==
    LET stop == Min(vend, calculate_used_buffer(b))
        n == IF stop > vstart THEN stop - vstart ELSE 0
    IN  PadLeftAligned([k \in 1..n |-> ShownChar(At(b, vstart + k - 1))])

\* the calls of the comparison loop from index i on: for each character of
\* text that differs from old, set_cursor(i) and write(char)
RECURSIVE DiffOps(_, _, _)
DiffOps(old, text, i) ==
    IF i >= Len(text)
    THEN <<>>
    ELSE (IF i >= Len(old) \/ At(old, i) # At(text, i)
          THEN <<[op |-> "set_cursor", pos |-> i],
                 [op |-> "write", text |-> <<At(text, i)>>]>>
          ELSE <<>>) \o DiffOps(old, text, i + 1)

\* a redraw that sends the whole frame, whatever the previous frame was
RenderOpsWholeFrame(old, text, cur) ==
    <<[op |-> "set_cursor", pos |-> 0], [op |-> "write", text |-> text],
      [op |-> "set_cursor", pos |-> cur]>>

\* every call update_display makes to the display, in order
RenderOps(old, text, cur) ==
    DiffOps(old, text, 0) \o <<[op |-> "set_cursor", pos |-> cur]>>

update_display(s) ==
    LET text == BuildVisibleText(s.buffer, s.visible_start, s.visible_end)
    IN  [s EXCEPT !.visible_text = text, !.visible_old = text,
                  !.vfd = vfd_apply(s.vfd,
                              RenderOps(s.visible_old, text, s.cursor_pos))]

insert_char(s, ch) ==
    IF s.buffer_pos < Len(s.buffer) - 1
    THEN LET p == s.buffer_pos
             shifted == IF s.insert_mode
                        THEN PySlice(s.buffer, 0, p + 1)
                                 \o PySlice(s.buffer, p, -1)
                        ELSE s.buffer
         IN  update_cursor_position(
                 [s EXCEPT !.buffer = SetAt(shifted, p, ch),
                           !.buffer_pos = p + 1])
    ELSE update_cursor_position(s)

delete_char(s) ==
    IF s.buffer_pos > 0
    THEN LET p == s.buffer_pos - 1
         IN  IF p >= Len(s.buffer)
             THEN [s EXCEPT !.buffer_pos = p, !.raised = TRUE]
             ELSE update_cursor_position(
                      [s EXCEPT !.buffer_pos = p,
                                !.buffer = SetAt(s.buffer, p, NUL)])
    ELSE s

move_cursor_up(s) ==
    update_display(
        IF s.visible_start >= RowWidth
        THEN [s EXCEPT !.visible_start = s.visible_start - RowWidth,
                       !.visible_end = s.visible_end - RowWidth]
        ELSE update_cursor_position(
                 [s EXCEPT !.buffer_pos = Max(0, s.buffer_pos - RowWidth)]))

move_cursor_down(s) ==
    LET buffer_size == calculate_used_buffer(s.buffer)
        moved(t) == update_display(update_cursor_position(
                        [t EXCEPT !.buffer_pos =
                             Min(buffer_size, s.buffer_pos + RowWidth)]))
    IN  IF s.visible_end + RowWidth <= buffer_size
        THEN moved([s EXCEPT !.visible_start = s.visible_start + RowWidth,
                             !.visible_end = s.visible_end + RowWidth])
        ELSE IF s.visible_end < buffer_size
        THEN moved([s EXCEPT !.visible_start = Max(0, buffer_size - RowWidth),
                             !.visible_end = buffer_size])
        ELSE s

move_cursor_left(s) ==
    IF s.buffer_pos > 0
    THEN update_cursor_position([s EXCEPT !.buffer_pos = s.buffer_pos - 1])
    ELSE s

move_cursor_right(s) ==
    IF s.buffer_pos < Len(s.buffer) - 1
    THEN update_cursor_position([s EXCEPT !.buffer_pos = s.buffer_pos + 1])
    ELSE s

return_to_main_screen(s) ==
    update_display(
        [s EXCEPT !.vfd = vfd_write(vfd_clear(s.vfd), s.visible_text)])

\* ------------------------------------------------------- FileOperations
\* The file store is the environment of the editor.  Each call is given its
\* outcome: the name the user typed at a prompt (None when the prompt was
\* left empty), whether the write succeeded, and what the read found.
PromptResults == UserNames \cup {None}
WriteOutcomes == {"ok", "ioerror"}

\* the files a read may find: every length up to MaxFileLen, and one with a
\* line break in it
FileContents ==
    {[i \in 1..n |-> 97] : n \in 0..MaxFileLen} \cup {<<97, NEWLINE>>}

ReadOutcomes ==
    {[kind |-> "missing", content |-> <<>>],
     [kind |-> "ioerror", content |-> <<>>]}
        \cup {[kind |-> "ok", content |-> c] : c \in FileContents}

\* what choose_file_from_list comes to: no file to list, Escape, or Enter on
\* one of the listed files, which is then read
ChooserOutcomes ==
    {[kind |-> "empty", content |-> <<>>],
     [kind |-> "esc", content |-> <<>>],
     [kind |-> "ioerror", content |-> <<>>]}
        \cup {[kind |-> "ok", content |-> c] : c \in FileContents}

\* the inputs a call consumes: a prompt is shown only when no name is open,
\* the file is touched only when there is a name
PromptsFor(filename) == IF filename \in {"", None} THEN PromptResults ELSE {filename}
WritesFor(name) == IF name = None THEN {"ok"} ELSE WriteOutcomes
ReadsFor(name) ==
    IF name = None THEN {[kind |-> "missing", content |-> <<>>]} ELSE ReadOutcomes

\* buffer[: buffer.find(0)], the bytes save_file writes
UsedBufferToWrite(buf) == PySlice(buf, 0, FindZero(buf))

\* FileOperations.save_file: the returned name and the bytes written
fo_save_file(buf, filename, typed, io) ==
    LET fname == IF filename \in {"", None} THEN typed ELSE filename
    IN  IF fname # None /\ io = "ok"
        THEN [ret |-> fname, wrote |-> TRUE, data |-> UsedBufferToWrite(buf)]
        ELSE [ret |-> None, wrote |-> FALSE, data |-> <<>>]

\* FileOperations.open_file: the returned name and the buffer afterwards
fo_open_file(buf, filename, typed, found) ==
    LET fname == IF filename \in {"", None} THEN typed ELSE filename
    IN  IF fname # None /\ found.kind = "ok"
        THEN [ret |-> fname, buffer |-> found.content]
        ELSE [ret |-> None, buffer |-> buf]

\* FileOperations.choose_file_from_list: only the buffer matters to run()
fo_choose_file_from_list(buf, chosen) ==
    IF chosen.kind \in {"empty", "esc"}
    THEN buf
    ELSE fo_open_file(buf, "doc", None,
                      [kind |-> chosen.kind, content |-> chosen.content]).buffer

\* the file store not followed, and the file store before any file was
\* written or read
FilesOff == [on |-> FALSE, content |-> <<>>]
NoFileYet == [on |-> TRUE, content |-> <<>>]

\* f.write(...) and f.read() returning: the bytes are those of the file
\* last written or read
file_done(f, done, data) ==
    IF f.on /\ done THEN [f EXCEPT !.content = data] ELSE f

\* ------------------------------------------- editor methods that use files
save_file(s, typed, io) ==
    LET r == fo_save_file(s.buffer, s.open_filename, typed, io)
    IN  return_to_main_screen(
            [s EXCEPT !.open_filename = r.ret,
                      !.buffer_altered = FALSE,
                      !.last_file = file_done(s.last_file, r.wrote, r.data)])

open_file(s, typed, found) ==
    LET r == fo_open_file(s.buffer, None, typed, found)
    IN  return_to_main_screen(
            [s EXCEPT !.open_filename = r.ret,
                      !.buffer = r.buffer,
                      !.buffer_pos = calculate_used_buffer(r.buffer),
                      !.buffer_altered = FALSE,
                      !.last_file = file_done(s.last_file, r.ret # None,
                                              found.content)])

journal_entry(s, io) ==
    LET fresh == Zeros(Capacity)
        r == fo_save_file(fresh, JournalName, None, io)
    IN  return_to_main_screen(
            [s EXCEPT !.buffer = fresh,
                      !.buffer_pos = 0,
                      !.open_filename = r.ret,
                      !.buffer_altered = FALSE,
                      !.last_file = file_done(s.last_file, r.wrote, r.data)])

\* ------------------------------------------------------------ state update
CommitFields(s) ==
    /\ buffer' = s.buffer
    /\ buffer_pos' = s.buffer_pos
    /\ visible_start' = s.visible_start
    /\ visible_end' = s.visible_end
    /\ visible_text' = s.visible_text
    /\ visible_old' = s.visible_old
    /\ cursor_pos' = s.cursor_pos
    /\ buffer_altered' = s.buffer_altered
    /\ insert_mode' = s.insert_mode
    /\ open_filename' = s.open_filename
    /\ vfd' = s.vfd
    /\ last_file' = s.last_file

\* back at the top of run()'s loop, unless an error was raised
Commit(s) ==
    /\ CommitFields(s)
    /\ pc' = IF s.raised THEN "crashed" ELSE "editing"

\* the tail of one pass of run()'s loop for a regular key: update_display,
\* which an error raised by the handler never reaches
EndOfLoop(s) == IF s.raised THEN s ELSE update_display(s)

Altered(s) == IF s.raised THEN s ELSE [s EXCEPT !.buffer_altered = TRUE]

\* ------------------------------------- one pass of run()'s loop, per key
OnInsert(s) ==
    EndOfLoop([s EXCEPT !.insert_mode = ~s.insert_mode,
                        !.vfd = vfd_write(s.vfd, StatusText)])
OnUp(s) == EndOfLoop(move_cursor_up(s))
OnDown(s) == EndOfLoop(move_cursor_down(s))
OnLeft(s) == EndOfLoop(move_cursor_left(s))
OnRight(s) == EndOfLoop(move_cursor_right(s))
OnEnter(s) == EndOfLoop(Altered(insert_char(s, NEWLINE)))
OnBackspace(s) == EndOfLoop(Altered(delete_char(s)))
OnChar(s, ch) == EndOfLoop(Altered(insert_char(s, ch)))
OnOther(s) == EndOfLoop(s)
OnCtrlS(s, typed, io) == [save_file(s, typed, io) EXCEPT !.buffer_altered = FALSE]
OnCtrlO(s, typed, found) == [open_file(s, typed, found) EXCEPT !.buffer_altered = FALSE]
\* the chooser ends, whatever was chosen, with a message on the cleared
\* display; run() goes on without a redraw
OnCtrlShiftO(s, chosen) ==
    [s EXCEPT !.buffer = fo_choose_file_from_list(s.buffer, chosen),
              !.buffer_altered = FALSE,
              !.last_file = file_done(s.last_file, chosen.kind = "ok",
                                      chosen.content),
              !.vfd = vfd_write(vfd_clear(s.vfd), StatusText)]
OnCtrlW(s) ==
    return_to_main_screen(
        [s EXCEPT !.vfd = vfd_write(vfd_clear(s.vfd), StatusText)])
OnCtrlJ(s, io) == journal_entry(s, io)

InitWith(capacity, display, files) ==
    /\ buffer = Zeros(capacity)
    /\ buffer_pos = 0
    /\ visible_start = 0
    /\ visible_end = WindowSize
    /\ visible_text = Spaces(WindowSize)
    /\ visible_old = Spaces(WindowSize)
    /\ cursor_pos = 0
    /\ buffer_altered = FALSE
    /\ insert_mode = FALSE
    /\ open_filename = ""
    /\ vfd = display
    /\ last_file = files
    /\ pc = "editing"

\* the editor after construction, the display not followed
Init == InitWith(Capacity, DisplayOff, FilesOff)

\* the editor after construction, with its display
InitDisplay == InitWith(Capacity, DisplayCleared, FilesOff)

\* the editor after construction, with the longer buffer
InitLong == InitWith(LongCapacity, DisplayOff, FilesOff)

\* the editor after construction, with the file store
InitFiles == InitWith(Capacity, DisplayOff, NoFileYet)

KeyChar ==
    /\ pc = "editing"
    /\ \E ch \in Printable : Commit(OnChar(Self, ch))

KeyEnter ==
    /\ pc = "editing"
    /\ Commit(OnEnter(Self))

KeyBackspace ==
    /\ pc = "editing"
    /\ Commit(OnBackspace(Self))

KeyInsert ==
    /\ pc = "editing"
    /\ Commit(OnInsert(Self))

KeyUp ==
    /\ pc = "editing"
    /\ Commit(OnUp(Self))

KeyDown ==
    /\ pc = "editing"
    /\ Commit(OnDown(Self))

KeyLeft ==
    /\ pc = "editing"
    /\ Commit(OnLeft(Self))

KeyRight ==
    /\ pc = "editing"
    /\ Commit(OnRight(Self))

\* any other key token (a modifier press, an unmapped key): only the redraw
KeyOther ==
    /\ pc = "editing"
    /\ Commit(OnOther(Self))

\* the keys that may answer the unsaved-changes prompt
QuitResponses == {"y", "n", "other"}

\* what the Ctrl-q branch reads: no response key unless the buffer is
\* altered, and the inputs of a save only after the response "y"
ResponsesFor(altered) == IF altered THEN QuitResponses ELSE {"none"}
QuitPromptsFor(s, response) ==
    IF s.buffer_altered /\ response = "y" THEN PromptsFor(s.open_filename) ELSE {None}

\* the Ctrl-q branch without its last break: a response other than "y" or
\* "n", and Ctrl-q with nothing to save, would go back to the loop
OnCtrlQNoFinalBreak(s, response, typed, io) ==
    IF s.buffer_altered /\ response = "y"
    THEN [self |-> save_file(s, typed, io), prompted |-> TRUE,
          keys_read |-> 1, save_called |-> TRUE, running |-> FALSE]
    ELSE [self |-> s, prompted |-> s.buffer_altered,
          keys_read |-> (IF s.buffer_altered THEN 1 ELSE 0),
          save_called |-> FALSE,
          running |-> ~(s.buffer_altered /\ response = "n")]

\* Ctrl-q, the whole branch: self is the editor afterwards, prompted says that
\* the unsaved-changes prompt was written, keys_read counts the get_key calls
\* of the branch, save_called says that self.save_file() was called, running
\* is the loop's flag after the branch (False on every path: each one breaks)
OnCtrlQ(s, response, typed, io) ==
    IF s.buffer_altered
    THEN LET asked == [s EXCEPT !.vfd = vfd_write(s.vfd, StatusText)]
         IN  IF response = "y"
             THEN [self |-> save_file(asked, typed, io), prompted |-> TRUE,
                   keys_read |-> 1, save_called |-> TRUE, running |-> FALSE]
             ELSE [self |-> asked, prompted |-> TRUE,
                   keys_read |-> 1, save_called |-> FALSE, running |-> FALSE]
    ELSE [self |-> s, prompted |-> FALSE,
          keys_read |-> 0, save_called |-> FALSE, running |-> FALSE]

\* Ctrl-q: the save on "y" prompts for a name only when none is open
CtrlQ ==
    /\ pc = "editing"
    /\ \E response \in ResponsesFor(buffer_altered) :
       \E typed \in QuitPromptsFor(Self, response) : \E io \in WritesFor(typed) :
           LET q == OnCtrlQ(Self, response, typed, io)
           IN  /\ CommitFields(q.self)
               /\ pc' = IF q.running THEN "editing" ELSE "quit"

CtrlS ==
    /\ pc = "editing"
    /\ \E typed \in PromptsFor(open_filename) : \E io \in WritesFor(typed) :
           Commit(OnCtrlS(Self, typed, io))

CtrlO ==
    /\ pc = "editing"
    /\ \E typed \in PromptResults : \E found \in ReadsFor(typed) :
           Commit(OnCtrlO(Self, typed, found))

CtrlShiftO ==
    /\ pc = "editing"
    /\ \E chosen \in ChooserOutcomes : Commit(OnCtrlShiftO(Self, chosen))

CtrlW ==
    /\ pc = "editing"
    /\ Commit(OnCtrlW(Self))

CtrlJ ==
    /\ pc = "editing"
    /\ \E io \in WriteOutcomes : Commit(OnCtrlJ(Self, io))

Next ==
    \/ KeyChar
    \/ KeyEnter
    \/ KeyBackspace
    \/ KeyInsert
    \/ KeyUp
    \/ KeyDown
    \/ KeyLeft
    \/ KeyRight
    \/ KeyOther
    \/ CtrlQ
    \/ CtrlS
    \/ CtrlO
    \/ CtrlShiftO
    \/ CtrlW
    \/ CtrlJ

Spec == Init /\ [][Next]_vars

\* the keys of the editing state alone: typing, Backspace, the arrows, the
\* insert toggle and the new-journal command; no load, no save, no quit
NextEditing ==
    \/ KeyChar
    \/ KeyEnter
    \/ KeyBackspace
    \/ KeyInsert
    \/ KeyUp
    \/ KeyDown
    \/ KeyLeft
    \/ KeyRight
    \/ KeyOther
    \/ CtrlJ

SpecEditing == Init /\ [][NextEditing]_vars

\* the editor with its display: the keys that change the text, the cursor or
\* the window, the insert toggle, and the commands that show a message on
\* the display (word count, file chooser)
NextDisplay ==
    \/ KeyChar
    \/ KeyBackspace
    \/ KeyInsert
    \/ KeyUp
    \/ KeyDown
    \/ KeyLeft
    \/ KeyRight
    \/ CtrlW
    \/ CtrlShiftO

SpecDisplay == InitDisplay /\ [][NextDisplay]_vars

\* typing, Backspace and the arrow keys in the longer buffer
NextLong ==
    \/ KeyChar
    \/ KeyBackspace
    \/ KeyUp
    \/ KeyDown
    \/ KeyLeft
    \/ KeyRight

SpecLong == InitLong /\ [][NextLong]_vars

\* typing, Backspace, the file commands and Ctrl-q, with the file store
NextFiles ==
    \/ KeyChar
    \/ KeyBackspace
    \/ CtrlS
    \/ CtrlO
    \/ CtrlShiftO
    \/ CtrlJ
    \/ CtrlQ

SpecFiles == InitFiles /\ [][NextFiles]_vars

\* ------------------------------------------------------------------ claims
used_length == calculate_used_buffer(buffer)

\* the index of the first zero byte, the length when there is none
TrueLength(b) == IF FindZero(b) = -1 THEN Len(b) ELSE FindZero(b)

PrefixDense(b) == \A i, j \in 1..Len(b) : (i < j /\ b[i] = NUL) => b[j] = NUL

\* buffer[0:used_length]
UsedContent(b) == PySlice(b, 0, calculate_used_buffer(b))

\* the state after one more typed key, for each byte that can be typed
AfterTyping(s) == {OnChar(s, ch) : ch \in Printable} \cup {OnEnter(s)}

\* C1: in every reachable state no zero byte precedes a non-zero byte, so the
\* count of non-zero bytes equals the index of the first zero byte.
C1_PrefixDense ==
    PrefixDense(buffer) /\ used_length = TrueLength(buffer)

\* C2: Backspace at buffer_pos = p, 1 <= p <= used_length, in a prefix-dense
\* buffer removes the byte at p-1 and closes the gap: the content becomes
\* old[0:p-1] + old[p:used_length], used_length drops by 1, buffer_pos = p-1.
C2_BackspaceClosesGap ==
    (/\ pc = "editing"
     /\ Len(buffer) = Capacity
     /\ PrefixDense(buffer)
     /\ buffer_pos >= 1
     /\ buffer_pos <= used_length)
    => LET t == OnBackspace(Self)
       IN  /\ UsedContent(t.buffer) =
                  PySlice(buffer, 0, buffer_pos - 1)
                      \o PySlice(buffer, buffer_pos, used_length)
           /\ calculate_used_buffer(t.buffer) = used_length - 1
           /\ t.buffer_pos = buffer_pos - 1

\* C3: whenever run waits for the next key, 0 <= buffer_pos <= used_length.
C3_CursorInDocument ==
    pc = "editing" => (0 <= buffer_pos /\ buffer_pos <= used_length)

\* C4: whenever run waits for the next key in the editing state, the cursor
\* lies inside the visible window: 0 <= buffer_pos - visible_start < 80.
C4_CursorInWindow ==
    pc = "editing" =>
        (0 <= buffer_pos - visible_start /\ buffer_pos - visible_start < WindowSize)

\* C5: in every reachable state visible_start is a non-negative multiple of
\* the row width and visible_end = visible_start + 80.
C5_WindowAligned ==
    /\ visible_start >= 0
    /\ visible_start % RowWidth = 0
    /\ visible_end = visible_start + WindowSize

\* C6: run never stops with an unhandled error; it ends only by Ctrl-q.
C6_NoFatalError == pc # "crashed"

\* C7: the buffer has its fixed capacity in every reachable state.
C7_FixedCapacity == Len(buffer) = Capacity

\* the buffer after a successful save_file to a name followed by open_file of
\* that name, which reads the bytes the save wrote
SaveThenOpen(s) ==
    LET written == fo_save_file(s.buffer, "doc", None, "ok").data
    IN  open_file(save_file(s, "doc", "ok"), "doc",
                  [kind |-> "ok", content |-> written])

\* C8: save then open of the same name gives back the used content, and the
\* bytes written are exactly the bytes in [0, used_length).  Stated for the
\* states with a prefix-dense buffer of the fixed capacity.
C8_SaveLoadRoundTrip ==
    (pc = "editing" /\ Len(buffer) = Capacity /\ PrefixDense(buffer)) =>
        /\ UsedContent(SaveThenOpen(Self).buffer) = UsedContent(buffer)
        /\ UsedBufferToWrite(buffer) = UsedContent(buffer)

\* C9: in overwrite mode, with cells 0..capacity-2 used and buffer_pos =
\* capacity-1, a typed character is stored and used_length becomes capacity.
C9_LastCellWritable ==
    (/\ pc = "editing"
     /\ ~insert_mode
     /\ Len(buffer) = Capacity
     /\ PrefixDense(buffer)
     /\ used_length = Capacity - 1
     /\ buffer_pos = Capacity - 1)
    => \A t \in AfterTyping(Self) :
           /\ At(t.buffer, Capacity - 1) # NUL
           /\ calculate_used_buffer(t.buffer) = Capacity

\* C10: in insert mode with a full buffer a typed character is dropped at
\* any cursor offset: buffer, used_length and buffer_pos stay as they were.
C10_InsertWhenFullDropped ==
    (/\ pc = "editing"
     /\ insert_mode
     /\ Len(buffer) = Capacity
     /\ used_length = Capacity)
    => \A t \in AfterTyping(Self) :
           /\ t.buffer = buffer
           /\ t.buffer_pos = buffer_pos

\* C11: in insert mode, in a prefix-dense buffer with used_length < capacity
\* and buffer_pos = p <= used_length, a typed character ch gives the content
\* old[0:p] + ch + old[p:used_length], used_length + 1 and buffer_pos = p + 1.
C11_InsertShiftsTail ==
    (/\ pc = "editing"
     /\ insert_mode
     /\ Len(buffer) = Capacity
     /\ PrefixDense(buffer)
     /\ used_length < Capacity
     /\ buffer_pos <= used_length)
    => \A ch \in Printable :
           LET t == OnChar(Self, ch)
           IN  /\ UsedContent(t.buffer) =
                      PySlice(buffer, 0, buffer_pos) \o <<ch>>
                          \o PySlice(buffer, buffer_pos, used_length)
               /\ calculate_used_buffer(t.buffer) = used_length + 1
               /\ t.buffer_pos = buffer_pos + 1

\* the outcomes of the Ctrl-s command in which nothing is saved: no name was
\* given at the prompt, or the write failed
FailedSaves(s) ==
    {OnCtrlS(s, typed, io) : <<typed, io>> \in
        {x \in PromptsFor(s.open_filename) \X WriteOutcomes :
            /\ x[2] \in WritesFor(x[1])
            /\ ~fo_save_file(s.buffer, s.open_filename, x[1], x[2]).wrote}}

\* C12: a Ctrl-s command whose save fails, or writes nothing for want of a
\* name, leaves buffer_altered as it was before the command.
C12_FailedSaveKeepsAltered ==
    pc = "editing" => \A t \in FailedSaves(Self) : t.buffer_altered = buffer_altered

\* the outcomes of the load commands in which nothing is loaded: Ctrl-o with
\* no name, a missing file or a read error; the chooser with an empty
\* listing or an Escape
FailedLoads(s) ==
    {OnCtrlO(s, typed, found) : <<typed, found>> \in
        {x \in PromptResults \X ReadOutcomes :
            x[2] \in ReadsFor(x[1]) /\ x[2].kind # "ok"}}
      \cup {OnCtrlShiftO(s, chosen) :
               chosen \in {c \in ChooserOutcomes : c.kind \in {"empty", "esc"}}}

\* "" and None both say that no file is open
SameFile(f, g) == f = g \/ (f \in {"", None} /\ g \in {"", None})

\* C13: a load that does not succeed leaves buffer, buffer_pos,
\* visible_start, open_filename and buffer_altered as they were.
C13_FailedLoadChangesNothing ==
    pc = "editing" =>
        \A t \in FailedLoads(Self) :
            /\ t.buffer = buffer
            /\ t.buffer_pos = buffer_pos
            /\ t.visible_start = visible_start
            /\ SameFile(t.open_filename, open_filename)
            /\ t.buffer_altered = buffer_altered

\* every way the Ctrl-q branch can go in the current state
QuitRuns ==
    {[response |-> x[1], q |-> OnCtrlQ(Self, x[1], x[2], x[3])] :
        x \in {y \in ResponsesFor(buffer_altered) \X PromptResults \X WriteOutcomes :
                   /\ y[2] \in QuitPromptsFor(Self, y[1])
                   /\ y[3] \in WritesFor(y[2])}}

\* C14: on Ctrl-q the unsaved-changes prompt is shown iff buffer_altered;
\* when shown exactly one response key is read; save_file is called iff
\* that response is "y"; after any response, or at once when not altered,
\* run leaves its loop, and once it has left no key is handled any more.
C14_QuitProtocol ==
    /\ [](pc = "editing" =>
            \A r \in QuitRuns :
                /\ r.q.prompted = buffer_altered
                /\ r.q.keys_read = (IF buffer_altered THEN 1 ELSE 0)
                /\ r.q.save_called = (buffer_altered /\ r.response = "y")
                /\ ~r.q.running)
    /\ [][pc # "quit"]_vars

\* run has ended after the prompt was answered with a key other than "y":
\* the text is still unsaved
C14_Witness == pc = "quit" /\ buffer_altered

\* the states after one more key or command whose pass through run()'s loop
\* ends with an update_display call that returns
AfterRedraw(s) ==
    {t \in {OnInsert(s), OnUp(s), OnDown(s), OnLeft(s), OnRight(s),
            OnBackspace(s), OnOther(s), OnCtrlW(s)}
              \cup {OnChar(s, ch) : ch \in Printable} : ~t.raised}

\* C15: after every update_display call returns, each display cell i holds
\* visible_old[i], for every sequence of keys, the insert toggle and the
\* commands that show messages included.
C15_CacheMatchesDisplay ==
    (pc = "editing" /\ vfd.on) =>
        \A t \in AfterRedraw(Self) : t.vfd.cells = t.visible_old

\* C16: every position passed to set_cursor lies in 0..79; cursor_pos, which
\* update_cursor_position and update_display send, is in [0, 80) after any
\* sequence of typing, Backspace and arrow keys.
C16_CursorPosOnDisplay ==
    cursor_pos \in 0..(WindowSize - 1)

\* C20: calling update_cursor_position twice in a row leaves visible_start
\* and visible_end after the second call as they were after the first.
C20_ReconcileIdempotent ==
    LET once == update_cursor_position(Self)
        twice == update_cursor_position(once)
    IN  /\ twice.visible_start = once.visible_start
        /\ twice.visible_end = once.visible_end

\* n printable characters typed one after the other, and no other key
RECURSIVE TypeN(_, _)
TypeN(s, n) ==
    IF n = 0 THEN s ELSE OnChar(TypeN(s, n - 1), CHOOSE ch \in Printable : TRUE)

\* the window start the claim gives for n typed characters
ScrollStart(n) ==
    IF n < WindowSize THEN 0 ELSE RowWidth * ((n \div RowWidth) - 1)

\* the editor as it starts: empty buffer, overwrite mode, first window
Fresh ==
    /\ pc = "editing"
    /\ buffer = Zeros(Len(buffer))
    /\ buffer_pos = 0
    /\ visible_start = 0
    /\ visible_end = WindowSize
    /\ ~insert_mode

\* C17: from the empty buffer in overwrite mode, after n <= capacity - 1
\* typed printable characters and no other key, buffer_pos = n, used_length
\* = n, visible_start = 0 if n < 80 and 40 * (floor(n / 40) - 1) otherwise,
\* visible_end = visible_start + 80, and the rendered span ends at n.
C17_ScrollWhileTyping ==
    Fresh =>
        \A n \in 0..(Len(buffer) - 1) :
            LET t == TypeN(Self, n)
            IN  /\ t.buffer_pos = n
                /\ calculate_used_buffer(t.buffer) = n
                /\ t.visible_start = ScrollStart(n)
                /\ t.visible_end = t.visible_start + WindowSize
                /\ Min(t.visible_end, calculate_used_buffer(t.buffer)) = n

\* one character more than two windows' worth has been typed and the window
\* has scrolled twice
C17_Witness ==
    /\ pc = "editing"
    /\ \E n \in (WindowSize + RowWidth)..(Len(buffer) - 1) :
           /\ buffer_pos = n
           /\ UsedContent(buffer) = [i \in 1..n |-> CHOOSE ch \in Printable : TRUE]
           /\ visible_start = ScrollStart(n)
           /\ visible_start = 2 * RowWidth

\* C18: after update_display visible_text has exactly 80 characters; for
\* every i with visible_start + i < min(visible_end, used_length) character
\* i is a backtick for a line break, a space for a zero byte and the byte's
\* own character otherwise; every other position is a space.
C18_FrameConstruction ==
    pc = "editing" =>
        LET t == update_display(Self)
            stop == Min(visible_end, used_length)
        IN  /\ Len(t.visible_text) = WindowSize
            /\ \A i \in 0..(WindowSize - 1) :
                   At(t.visible_text, i) =
                       IF visible_start + i < stop
                       THEN CASE At(buffer, visible_start + i) = NEWLINE -> BACKTICK
                              [] At(buffer, visible_start + i) = NUL -> SPACE
                              [] OTHER -> At(buffer, visible_start + i)
                       ELSE SPACE

\* a frame, just drawn, that shows a line break as a backtick, a typed
\* character as itself and a zero byte inside the text as a space
C18_Witness ==
    /\ pc = "editing"
    /\ visible_text = update_display(Self).visible_text
    /\ \E i, j, k \in 0..(WindowSize - 1) :
           /\ visible_start + i < Min(visible_end, used_length)
           /\ visible_start + j < Min(visible_end, used_length)
           /\ visible_start + k < Min(visible_end, used_length)
           /\ At(buffer, visible_start + i) = NEWLINE
           /\ At(visible_text, i) = BACKTICK
           /\ At(buffer, visible_start + j) = NUL
           /\ At(visible_text, j) = SPACE
           /\ At(buffer, visible_start + k) \in Printable
           /\ At(visible_text, k) = At(buffer, visible_start + k)

\* C19: in every reachable state the up key sets buffer_pos to
\* max(0, buffer_pos - 40) and the down key sets it to
\* min(used_length, buffer_pos + 40).
C19_VerticalMoveOneRow ==
    pc = "editing" =>
        /\ OnUp(Self).buffer_pos = Max(0, buffer_pos - RowWidth)
        /\ OnDown(Self).buffer_pos = Min(used_length, buffer_pos + RowWidth)

\* C21: Backspace with buffer_pos = 0 changes nothing: buffer, used_length,
\* buffer_pos, visible_start, visible_end and buffer_altered stay as they were.
C21_BackspaceAtStartNoOp ==
    (pc = "editing" /\ buffer_pos = 0) =>
        LET t == OnBackspace(Self)
        IN  /\ t.buffer = buffer
            /\ calculate_used_buffer(t.buffer) = used_length
            /\ t.buffer_pos = buffer_pos
            /\ t.visible_start = visible_start
            /\ t.visible_end = visible_end
            /\ t.buffer_altered = buffer_altered

\* C23: the down key with visible_end < used_length < visible_end + 40
\* leaves the window on the last 80 used bytes: the rendered span is
\* [max(0, used_length - 80), used_length) and visible_start is at most
\* max(0, used_length - 80).
C23_ScrollDownTieBreak ==
    (/\ pc = "editing"
     /\ visible_end < used_length
     /\ used_length < visible_end + RowWidth)
    => LET t == OnDown(Self)
       IN  /\ t.visible_start = Max(0, used_length - WindowSize)
           /\ Min(t.visible_end, calculate_used_buffer(t.buffer)) = used_length
           /\ t.visible_start <= Max(0, used_length - WindowSize)

\* the states in which run()'s loop, after one more key, calls update_display:
\* the handler of the key has been run, the frame has not been rebuilt
BeforeRedraw(s) ==
    {t \in {[s EXCEPT !.insert_mode = ~s.insert_mode,
                      !.vfd = vfd_write(s.vfd, StatusText)],
            move_cursor_up(s), move_cursor_down(s),
            move_cursor_left(s), move_cursor_right(s),
            Altered(insert_char(s, NEWLINE)), Altered(delete_char(s)), s,
            [s EXCEPT !.vfd = vfd_write(vfd_clear(vfd_write(vfd_clear(s.vfd),
                                                            StatusText)),
                                        s.visible_text)]}
              \cup {Altered(insert_char(s, ch)) : ch \in Printable} : ~t.raised}

\* the cells in which the frame new differs from the frame old
ChangedCells(old, new) ==
    {i \in 0..(WindowSize - 1) : At(old, i) # At(new, i)}

\* C22: each update_display call sends one (set_cursor(i), write(new[i]))
\* pair for every index i in 0..79 where the new frame differs from
\* visible_old, in increasing i, nothing for the other cells, then one final
\* set_cursor(cursor_pos) as its last operation, and leaves visible_old equal
\* to the new frame.
C22_DifferentialRender ==
    pc = "editing" =>
        \A s \in BeforeRedraw(Self) :
            LET t == update_display(s)
                new == t.visible_text
                ops == RenderOps(s.visible_old, new, s.cursor_pos)
            IN  /\ Len(new) = WindowSize
                /\ Len(s.visible_old) = WindowSize
                /\ LET D == ChangedCells(s.visible_old, new)
                       n == Cardinality(D)
                   IN  /\ Len(ops) = 2 * n + 1
                       /\ \A k \in 1..n :
                              /\ ops[2 * k - 1].op = "set_cursor"
                              /\ ops[2 * k - 1].pos \in D
                              /\ ops[2 * k] =
                                     [op |-> "write",
                                      text |-> <<At(new, ops[2 * k - 1].pos)>>]
                              /\ k < n => ops[2 * k - 1].pos < ops[2 * k + 1].pos
                       /\ ops[2 * n + 1] = [op |-> "set_cursor", pos |-> s.cursor_pos]
                /\ t.visible_old = new
                /\ t.vfd = vfd_apply(s.vfd, ops)

\* a redraw that changes some cells of the display and leaves others alone,
\* with more than one changed cell
C22_Witness ==
    /\ pc = "editing"
    /\ vfd.on
    /\ \E s \in BeforeRedraw(Self) :
           LET D == ChangedCells(s.visible_old, update_display(s).visible_text)
           IN  /\ Cardinality(D) > 1
               /\ Cardinality(D) < WindowSize

\* C24: in every reachable state where buffer_altered is false, the used
\* content of the buffer is the content most recently written by a
\* successful save or read by a successful load (empty if there was none),
\* so that a Ctrl-q that exits without the prompt discards no edits.
C24_UnalteredMeansStored ==
    (pc # "crashed" /\ ~buffer_altered) =>
        UsedContent(buffer) = last_file.content

====
